---- MODULE Spec2Model ----
(***************************************************************************)
(* A model of two parts of the hypothesis repository:                      *)
(*                                                                         *)
(*  - hypothesis.extra.twisted: defer_driver / _iter_defer, which drive a  *)
(*    generator body against Deferreds.  The model keeps the Python call   *)
(*    stack of _iter_defer invocations explicitly, because Deferred        *)
(*    callbacks run synchronously inside whoever fires (or subscribes to   *)
(*    an already fired) Deferred.  Specification: Spec.                    *)
(*                                                                         *)
(*  - hypothesis.searchstrategy.numbers: IntStrategy.simplify,             *)
(*    BoundedIntStrategy and FixedBoundedFloatStrategy.  Specification:    *)
(*    SpecNum.                                                             *)
(***************************************************************************)
EXTENDS Integers, Sequences, FiniteSets, TLC

VARIABLES
    \* ---- twisted driver ----
    root,       \* what was handed to defer_driver: its kind ("unstarted", "plain",
                \* "generator") and, for a plain value, the value
    nbodies,    \* number of generator bodies created so far (body 1 is the root)
    stack,      \* active _iter_defer invocations, innermost last
    called,     \* called[b]: done_d of body b has fired
    dres,       \* dres[b]: the result done_d of body b fired with
    dsub,       \* dsub[b]: body whose _iter_defer is subscribed to done_d of b (0: none)
    ncall,      \* ncall[b]: number of callback()/errback() calls made on done_d of b
    ops,        \* ops[o]: a Deferred yielded by a body
    sends,      \* sends[b]: number of g.send / throw calls made on body b
    nyield,     \* nyield[b]: number of values body b has yielded
    npend,      \* npend[b]: number of not-yet-fired Deferreds body b has yielded
    ending,     \* ending[b]: the exception that left body b (NoExc while it lives)
    unhandled,  \* unhandled[b]: body b ended by not handling a failure thrown into it
    delivered,  \* delivered[b]: how body b was last resumed, and with what
    \* ---- numeric strategies ----
    strat,      \* the constructed strategy
    parameter,  \* the parameter value drawn for this run
    template,   \* the last template produced or shrunk to
    simplified, \* the sequence simplify(template) yielded, once computed
    phase,      \* "new", "param", "produced", "simplified", "shrunk"
    origin,     \* the template the current shrink chain started from
    steps,      \* number of shrink steps taken from origin
    rng         \* the generator Random(x) of the large-integer branch: [a, b]

drivervars == <<root, nbodies, stack, called, dres, dsub, ncall, ops, sends,
                nyield, npend, ending, unhandled, delivered>>
numvars == <<strat, parameter, template, simplified, phase, origin, steps, rng>>
vars == <<drivervars, numvars>>

(***************************************************************************)
(* Bounds of the driver model.                                             *)
(***************************************************************************)
MaxBodies == 2      \* generator bodies: the root and those it yields
MaxOps == 2         \* Deferreds yielded by bodies
MaxYields == 3      \* yields made by all bodies together

Bodies == 1..MaxBodies
OpIds == 1..MaxOps

(***************************************************************************)
(* Python values, exceptions, and Deferred results.                        *)
(***************************************************************************)
Values == {"None", "a"}
ErrKinds == {"ValueError", "Timeout"}

Exc(k, v) == [kind |-> k, value |-> v]
NoExc == Exc("-", "None")
ReturnExc(v) == Exc("Return", v)
StopIteration == Exc("StopIteration", "None")
Errors == {Exc(k, "None") : k \in ErrKinds}
\* what a body may raise of its own accord
BodyExcs == {ReturnExc(v) : v \in Values} \cup {StopIteration} \cup Errors
\* what an operation may fail with
OpExcs == {Exc("ValueError", "None"), StopIteration}

Value(v) == [tag |-> "value", kind |-> "-", value |-> v]
Failure(e) == [tag |-> "failure", kind |-> e.kind, value |-> e.value]
NoResult == [tag |-> "none", kind |-> "-", value |-> "None"]
ExcOf(r) == Exc(r.kind, r.value)
PlainValues == {"a"}
OpResults == {Value(v) : v \in PlainValues} \cup {Failure(e) : e \in OpExcs}

Frame(b, r) == [g |-> b, result |-> r, pc |-> "resume", child |-> 0]
Top(s) == s[Len(s)]
Front(s) == SubSeq(s, 1, Len(s) - 1)
SetTop(s, p, c) == [s EXCEPT ![Len(s)] = [@ EXCEPT !.pc = p, !.child = c]]
NoOp == [state |-> "unused", sub |-> 0, res |-> NoResult]

(***************************************************************************)
(* _iter_defer, line 23: a Failure is thrown into the generator, anything  *)
(* else is sent.                                                           *)
(***************************************************************************)
IsThrow(result) == result.tag = "failure"

(***************************************************************************)
(* _iter_defer, lines 27-35: what done_d fires with when exception e       *)
(* leaves g.send / throwExceptionIntoGenerator.                            *)
(***************************************************************************)
\* a driver that reports every exception but Return as exhaustion
DispatchSwallow(e) ==
    IF e.kind = "Return" THEN Value(e.value) ELSE Value("None")

\* a driver that drops the value carried by Return
DispatchDropValue(e) ==
    IF e.kind = "Return" \/ e.kind = "StopIteration" THEN Value("None") ELSE Failure(e)

Dispatch(e) ==
    IF e.kind = "Return" THEN Value(e.value)             \* done_d.callback(e.value)
    ELSE IF e.kind = "StopIteration" THEN Value("None")  \* done_d.callback(None)
    ELSE Failure(e)                                      \* done_d.errback()

(***************************************************************************)
(* _iter_defer, lines 38-40, and the return of an invocation.              *)
(*                                                                         *)
(* AddBoth: the innermost invocation of s subscribes _iter_defer to a      *)
(* Deferred and returns.  Deferred.addBoth runs the callback at once when  *)
(* the Deferred has already fired: a further _iter_defer invocation for    *)
(* the same body is entered while this one is still active.                *)
(*                                                                         *)
(* Returned: the innermost invocation of s returns to its caller.  A       *)
(* caller that was inside addBoth or done_d.callback returns as well; a    *)
(* caller that was inside defer_driver(result) (line 37) goes on to        *)
(* subscribe to the child's done_d.                                        *)
(***************************************************************************)
RECURSIVE Returned(_, _, _, _)
\* a driver that resumes the body without waiting for the Deferred to fire
AddBothEager(s, sub, cl, dr, fired, res) ==
    [stack |-> Append(SetTop(s, "ret", 0), Frame(Top(s).g, res)), dsub |-> sub]

AddBoth(s, sub, cl, dr, fired, res) ==
    IF fired
    THEN [stack |-> Append(SetTop(s, "ret", 0), Frame(Top(s).g, res)), dsub |-> sub]
    ELSE Returned(s, sub, cl, dr)

Returned(s, sub, cl, dr) ==
    LET r == Front(s) IN
    IF r = <<>> THEN [stack |-> r, dsub |-> sub]
    ELSE LET f == Top(r) IN
         IF f.pc = "ret" THEN Returned(r, sub, cl, dr)
         ELSE AddBoth(r,
                      IF cl[f.child] THEN sub ELSE [sub EXCEPT ![f.child] = f.g],
                      cl, dr, cl[f.child], dr[f.child])

RECURSIVE Sum(_, _)
Sum(f, n) == IF n = 0 THEN 0 ELSE f[n] + Sum(f, n - 1)
Yielded == Sum(nyield, MaxBodies)

Running == stack # <<>> /\ Top(stack).pc = "resume"
FreeOps == {o \in OpIds : ops[o].state = "unused"}
NextOp == CHOOSE o \in FreeOps : \A p \in FreeOps : o <= p

(***************************************************************************)
(* The part of one loop iteration every body step shares: lines 22-26.     *)
(***************************************************************************)
Resumed(b) ==
    /\ sends' = [sends EXCEPT ![b] = @ + 1]
    /\ delivered' = [delivered EXCEPT ![b] =
            [how |-> IF IsThrow(Top(stack).result) THEN "throw" ELSE "send",
             what |-> Top(stack).result.tag]]

(***************************************************************************)
(* Lines 27-35: exception e left the body; done_d fires, its subscriber    *)
(* (the parent body's _iter_defer, if it subscribed) runs inside the call. *)
(***************************************************************************)
\* a driver without the return of lines 29, 32 and 35: done_d fires, but the
\* invocation stays in its loop and steps the finished generator again
FinishWithoutReturn(b, e) ==
    /\ called' = [called EXCEPT ![b] = TRUE]
    /\ dres' = [dres EXCEPT ![b] = Dispatch(e)]
    /\ ncall' = [ncall EXCEPT ![b] = @ + 1]
    /\ stack' = stack
    /\ dsub' = dsub
    /\ ending' = [ending EXCEPT ![b] = e]

Finish(b, e) ==
    LET res == Dispatch(e)
        cl == [called EXCEPT ![b] = TRUE]
        dr == [dres EXCEPT ![b] = res]
        u == IF dsub[b] # 0
             THEN [stack |-> Append(SetTop(stack, "ret", 0), Frame(dsub[b], res)),
                   dsub |-> dsub]
             ELSE Returned(stack, dsub, cl, dr)
    IN /\ called' = cl
       /\ dres' = dr
       /\ ncall' = [ncall EXCEPT ![b] = @ + 1]
       /\ stack' = u.stack
       /\ dsub' = u.dsub
       /\ ending' = [ending EXCEPT ![b] = e]

(***************************************************************************)
(* defer_driver, lines 11-17.                                              *)
(***************************************************************************)
DriveValue(v) ==
    /\ root.kind = "unstarted"
    /\ root' = [kind |-> "plain", value |-> v]
    /\ called' = [called EXCEPT ![1] = TRUE]
    /\ dres' = [dres EXCEPT ![1] = Value(v)]
    /\ ncall' = [ncall EXCEPT ![1] = @ + 1]
    /\ UNCHANGED <<nbodies, stack, dsub, ops, sends, nyield, npend, ending,
                   unhandled, delivered, numvars>>

DriveGenerator ==
    /\ root.kind = "unstarted"
    /\ root' = [kind |-> "generator", value |-> "None"]
    /\ nbodies' = 1
    /\ stack' = <<Frame(1, Value("None"))>>
    /\ UNCHANGED <<called, dres, dsub, ncall, ops, sends, nyield, npend, ending,
                   unhandled, delivered, numvars>>

(***************************************************************************)
(* One iteration of _iter_defer in which the body yields.                  *)
(***************************************************************************)
\* the body yields a Deferred that has not fired yet
BodyYieldPending ==
    /\ Running
    /\ LET b == Top(stack).g IN
       /\ Yielded < MaxYields
       /\ FreeOps # {}
       /\ Resumed(b)
       /\ ops' = [ops EXCEPT ![NextOp] = [state |-> "pending", sub |-> b, res |-> NoResult]]
       /\ LET u == AddBoth(stack, dsub, called, dres, FALSE, NoResult) IN
          stack' = u.stack /\ dsub' = u.dsub
       /\ nyield' = [nyield EXCEPT ![b] = @ + 1]
       /\ npend' = [npend EXCEPT ![b] = @ + 1]
    /\ UNCHANGED <<root, nbodies, called, dres, ncall, ending, unhandled, numvars>>

\* the body yields a Deferred that has already fired with res
BodyYieldFired(res) ==
    /\ Running
    /\ LET b == Top(stack).g IN
       /\ Yielded < MaxYields
       /\ FreeOps # {}
       /\ Resumed(b)
       /\ ops' = [ops EXCEPT ![NextOp] = [state |-> "fired", sub |-> b, res |-> res]]
       /\ LET u == AddBoth(stack, dsub, called, dres, TRUE, res) IN
          stack' = u.stack /\ dsub' = u.dsub
       /\ nyield' = [nyield EXCEPT ![b] = @ + 1]
    /\ UNCHANGED <<root, nbodies, called, dres, ncall, npend, ending, unhandled, numvars>>

\* the body yields a plain value: line 37 wraps it through defer_driver,
\* whose done_d has fired with the value by the time it is returned
BodyYieldValue(v) ==
    /\ Running
    /\ LET b == Top(stack).g IN
       /\ Yielded < MaxYields
       /\ Resumed(b)
       /\ LET u == AddBoth(stack, dsub, called, dres, TRUE, Value(v)) IN
          stack' = u.stack /\ dsub' = u.dsub
       /\ nyield' = [nyield EXCEPT ![b] = @ + 1]
    /\ UNCHANGED <<root, nbodies, called, dres, ncall, ops, npend, ending, unhandled,
                   numvars>>

\* the body yields a generator: line 37 drives it as a body of its own
BodyYieldGenerator ==
    /\ Running
    /\ nbodies < MaxBodies
    /\ LET b == Top(stack).g
           c == nbodies + 1
       IN
       /\ Yielded < MaxYields
       /\ Resumed(b)
       /\ nbodies' = c
       /\ stack' = Append(SetTop(stack, "wait_child", c), Frame(c, Value("None")))
       /\ nyield' = [nyield EXCEPT ![b] = @ + 1]
    /\ UNCHANGED <<root, called, dres, dsub, ncall, ops, npend, ending, unhandled,
                   numvars>>

(***************************************************************************)
(* One iteration of _iter_defer in which the body ends.                    *)
(***************************************************************************)
\* the body raises e itself: Return(v), StopIteration on running off its
\* end, or an error (after handling whatever was thrown into it)
BodyRaise(e) ==
    /\ Running
    /\ LET b == Top(stack).g IN
       /\ Resumed(b)
       /\ Finish(b, e)
    /\ UNCHANGED <<root, nbodies, ops, nyield, npend, unhandled, numvars>>

\* a failure was thrown into the body and the body does not handle it:
\* the same exception leaves throwExceptionIntoGenerator
BodyPropagate ==
    /\ Running
    /\ Top(stack).result.tag = "failure"
    /\ IsThrow(Top(stack).result)
    /\ LET b == Top(stack).g IN
       /\ Resumed(b)
       /\ Finish(b, ExcOf(Top(stack).result))
       /\ unhandled' = [unhandled EXCEPT ![b] = TRUE]
    /\ UNCHANGED <<root, nbodies, ops, nyield, npend, numvars>>

(***************************************************************************)
(* The reactor fires a pending Deferred; its callback, _iter_defer of the  *)
(* subscribed body, runs with the result.  The reactor is single-threaded: *)
(* it runs only when no invocation is active.                              *)
(***************************************************************************)
Fire(o, res) ==
    /\ stack = <<>>
    /\ ops[o].state = "pending"
    /\ ops' = [ops EXCEPT ![o] = [@ EXCEPT !.state = "fired", !.res = res]]
    /\ stack' = <<Frame(ops[o].sub, res)>>
    /\ UNCHANGED <<root, nbodies, called, dres, dsub, ncall, sends, nyield, npend,
                   ending, unhandled, delivered, numvars>>

(***************************************************************************)
(* Numeric strategies (searchstrategy/numbers.py).                         *)
(*                                                                         *)
(* Templates are Python integers, so int(x) has the type of x and the      *)
(* branch of IntStrategy.simplify at lines 51-52 is not taken.  Floats are *)
(* exact rationals: the endpoints are integers, cut and random() are       *)
(* multiples of 1/Denom, and a float template is kept as its numerator     *)
(* over Denom * Denom.                                                     *)
(***************************************************************************)
max_iters == 100    \* IntStrategy.simplify, line 64

MaxInt == 102       \* magnitude of the integers RandomGeometricIntStrategy draws
MaxStart == 1       \* BoundedIntStrategy: |start| <= MaxStart
MaxWidth == 3       \* BoundedIntStrategy: end - start <= MaxWidth
MaxEndpoint == 2    \* FixedBoundedFloatStrategy: 0 <= lower_bound <= upper_bound <= MaxEndpoint
Denom == 4          \* cut and random() are multiples of 1/Denom

\* hrange(a, b, step) for step 1 and -1
HRange(a, b, step) ==
    IF step = 1
    THEN [i \in 1..(IF b > a THEN b - a ELSE 0) |-> a + i - 1]
    ELSE [i \in 1..(IF a > b THEN a - b ELSE 0) |-> a - i + 1]

\* the elements of s other than v, in order
Filter(s, v) == SelectSeq(s, LAMBDA y : y # v)

\* a loop that forgets to leave out x // 2
SmallTailKeepsHalf(x) == HRange(x - 1, 0, -1)

\* IntStrategy.simplify, lines 65-68
SmallTail(x) == Filter(HRange(x - 1, 0, -1), x \div 2)

\* random.randint(0, x - 1), the n-th draw from Random(x): the generator is
\* deterministic but its values are not known to the model, which takes it
\* from a family of sequences fixed by rng
Draw(x, n) == (rng.a * n + rng.b) % x

\* IntStrategy.simplify, lines 70-76: the n-th draw is yielded unless it is
\* in seen, which holds 0, x // 2 and every earlier draw
SampledTail(x) ==
    LET draws == [n \in 1..max_iters |-> Draw(x, n)]
        fresh(n) == /\ draws[n] \notin {0, x \div 2}
                    /\ \A m \in 1..(n - 1) : draws[m] # draws[n]
        kept == SelectSeq([n \in 1..max_iters |-> n], fresh)
    IN [i \in DOMAIN kept |-> draws[kept[i]]]

Negated(s) == [i \in DOMAIN s |-> -s[i]]

\* a simplify that flips the sign of every nonzero integer
IntSimplifyFlip(x) == IF x = 0 THEN <<>> ELSE <<-x>>

\* IntStrategy.simplify, lines 49-76
RECURSIVE IntSimplify(_)
IntSimplify(x) ==
    IF x < 0 THEN <<-x>> \o Negated(IntSimplify(-x))
    ELSE IF x > 0 THEN
        IF x = 1 THEN <<0>>
        ELSE IF x = 2 THEN <<0, x \div 2>>
        ELSE <<0, x \div 2>> \o (IF x <= max_iters THEN SmallTail(x) ELSE SampledTail(x))
    ELSE <<>>

\* a simplify whose first loop stops one short of start
BoundedSimplifyShort(start, end, x) ==
    IF x = start THEN <<>>
    ELSE HRange(x - 1, start, -1)
         \o (IF x > (start + end) \div 2
             THEN <<start + (end - x)>> \o HRange(x + 1, end + 1, 1)
             ELSE <<>>)

\* a simplify that reflects around 0 instead of around the range
BoundedSimplifyNoOffset(start, end, x) ==
    IF x = start THEN <<>>
    ELSE HRange(x - 1, start - 1, -1)
         \o (IF x > (start + end) \div 2
             THEN <<end - x>> \o HRange(x + 1, end + 1, 1)
             ELSE <<>>)

\* BoundedIntStrategy.simplify, lines 134-143
BoundedSimplify(start, end, x) ==
    IF x = start THEN <<>>
    ELSE HRange(x - 1, start - 1, -1)
         \o (IF x > (start + end) \div 2
             THEN <<start + (end - x)>> \o HRange(x + 1, end + 1, 1)
             ELSE <<>>)

\* FixedBoundedFloatStrategy.produce_template, lines 304-311, as the
\* numerator over Denom * Denom of left + random() * (right - left), with
\* cut = c / Denom and random() = k / Denom
FloatTemplate(lower, upper, c, leftwards, k) ==
    LET left == IF leftwards THEN lower * Denom ELSE c
        right == IF leftwards THEN c ELSE upper * Denom
    IN left * Denom + k * (right - left)

IsInt == strat.kind = "IntStrategy"
IsBounded == strat.kind = "BoundedIntStrategy"
IsFloat == strat.kind = "FixedBoundedFloatStrategy"

\* the strategies the constructors build: BoundedIntStrategy.__init__ raises
\* ValueError on start > end (lines 113-114)
Strategies ==
    {[kind |-> "IntStrategy", start |-> 0, end |-> 0]}
    \cup {[kind |-> "BoundedIntStrategy", start |-> a, end |-> a + w] :
            a \in -MaxStart..MaxStart, w \in 0..MaxWidth}
    \cup {[kind |-> "FixedBoundedFloatStrategy", start |-> a, end |-> b] :
            a \in 0..MaxEndpoint, b \in 0..MaxEndpoint}
NoParameter == [active |-> {}, cut |-> 0, leftwards |-> FALSE]

\* RandomGeometricIntStrategy: the parameter does not restrict the values
DrawIntParameter ==
    /\ phase = "new" /\ IsInt
    /\ parameter' = NoParameter
    /\ phase' = "param"
    /\ UNCHANGED <<strat, template, simplified, origin, steps, rng, drivervars>>

\* BoundedIntStrategy.__init__, lines 115-118: a non-empty subset of the range
DrawBoundedParameter ==
    /\ phase = "new" /\ IsBounded
    /\ \E active \in SUBSET (strat.start..strat.end) :
        /\ active # {}
        /\ parameter' = [NoParameter EXCEPT !.active = active]
    /\ phase' = "param"
    /\ UNCHANGED <<strat, template, simplified, origin, steps, rng, drivervars>>

\* FixedBoundedFloatStrategy.parameter, lines 294-297
DrawFloatParameter(c, leftwards) ==
    /\ phase = "new" /\ IsFloat
    /\ parameter' = [NoParameter EXCEPT !.cut = c, !.leftwards = leftwards]
    /\ phase' = "param"
    /\ UNCHANGED <<strat, template, simplified, origin, steps, rng, drivervars>>

Produced(t) ==
    /\ template' = t
    /\ origin' = t
    /\ steps' = 0
    /\ phase' = "produced"
    /\ UNCHANGED <<strat, parameter, simplified, rng, drivervars>>

\* RandomGeometricIntStrategy.produce_template, lines 94-98
ProduceInt(value, negative) ==
    /\ phase = "param" /\ IsInt
    /\ Produced(IF negative THEN -value ELSE value)

\* BoundedIntStrategy.produce_template, lines 129-132
ProduceBounded ==
    /\ phase = "param" /\ IsBounded
    /\ IF strat.start = strat.end
       THEN Produced(strat.start)
       ELSE \E t \in parameter.active : Produced(t)

\* FixedBoundedFloatStrategy.produce_template, lines 304-311
ProduceFloat(k) ==
    /\ phase = "param" /\ IsFloat
    /\ Produced(FloatTemplate(strat.start, strat.end, parameter.cut,
                              parameter.leftwards, k))

SimplifyInt ==
    /\ phase \in {"produced", "shrunk"} /\ IsInt
    /\ simplified' = IntSimplify(template)
    /\ phase' = "simplified"
    /\ UNCHANGED <<strat, parameter, template, origin, steps, rng, drivervars>>

SimplifyBounded ==
    /\ phase \in {"produced", "shrunk"} /\ IsBounded
    /\ simplified' = BoundedSimplify(strat.start, strat.end, template)
    /\ phase' = "simplified"
    /\ UNCHANGED <<strat, parameter, template, origin, steps, rng, drivervars>>

\* the search takes the first candidate simplify yielded and simplifies it
\* in turn
ShrinkFirst ==
    /\ phase = "simplified"
    /\ simplified # <<>>
    /\ template' = Head(simplified)
    /\ steps' = steps + 1
    /\ phase' = "shrunk"
    /\ simplified' = <<>>
    /\ UNCHANGED <<strat, parameter, origin, rng, drivervars>>

NumStart ==
    /\ strat \in Strategies
    /\ strat.kind = "FixedBoundedFloatStrategy" => strat.start <= strat.end
    /\ rng \in [a : {1, 7}, b : {0, 3}]
    /\ parameter = NoParameter
    /\ template = 0
    /\ simplified = <<>>
    /\ phase = "new"
    /\ origin = 0
    /\ steps = 0

NextNum ==
    \/ DrawIntParameter
    \/ DrawBoundedParameter
    \/ \E c \in 0..Denom, leftwards \in BOOLEAN : DrawFloatParameter(c, leftwards)
    \/ \E value \in 0..MaxInt, negative \in BOOLEAN : ProduceInt(value, negative)
    \/ ProduceBounded
    \/ \E k \in 0..(Denom - 1) : ProduceFloat(k)
    \/ SimplifyInt
    \/ SimplifyBounded
    \/ ShrinkFirst


DriverInit ==
    /\ root = [kind |-> "unstarted", value |-> "None"]
    /\ nbodies = 0
    /\ stack = <<>>
    /\ called = [b \in Bodies |-> FALSE]
    /\ dres = [b \in Bodies |-> NoResult]
    /\ dsub = [b \in Bodies |-> 0]
    /\ ncall = [b \in Bodies |-> 0]
    /\ ops = [o \in OpIds |-> NoOp]
    /\ sends = [b \in Bodies |-> 0]
    /\ nyield = [b \in Bodies |-> 0]
    /\ npend = [b \in Bodies |-> 0]
    /\ ending = [b \in Bodies |-> NoExc]
    /\ unhandled = [b \in Bodies |-> FALSE]
    /\ delivered = [b \in Bodies |-> [how |-> "none", what |-> "none"]]

NumIdle ==
    /\ strat = [kind |-> "none", start |-> 0, end |-> 0]
    /\ parameter = {}
    /\ template = 0
    /\ simplified = <<>>
    /\ phase = "new"
    /\ origin = 0
    /\ steps = 0
    /\ rng = [a |-> 0, b |-> 0]

Init == DriverInit /\ NumIdle

Next ==
    \/ \E v \in Values : DriveValue(v)
    \/ DriveGenerator
    \/ BodyYieldPending
    \/ \E res \in OpResults : BodyYieldFired(res)
    \/ \E v \in PlainValues : BodyYieldValue(v)
    \/ BodyYieldGenerator
    \/ \E e \in BodyExcs : BodyRaise(e)
    \/ BodyPropagate
    \/ \E o \in OpIds, res \in OpResults : Fire(o, res)

Spec == Init /\ [][Next]_vars

\* The steps of a running _iter_defer invocation, and the firing of a
\* pending Deferred.
BodyStep ==
    \/ BodyYieldPending
    \/ \E res \in OpResults : BodyYieldFired(res)
    \/ \E v \in PlainValues : BodyYieldValue(v)
    \/ BodyYieldGenerator
    \/ \E e \in BodyExcs : BodyRaise(e)
    \/ BodyPropagate
FireAny == \E o \in OpIds, res \in OpResults : Fire(o, res)

\* Spec with the scheduling of a run in which the interpreter carries on with
\* an active invocation and every operation a body awaits completes.
SpecLive == Init /\ [][Next]_vars /\ WF_vars(BodyStep) /\ WF_vars(FireAny)

InitNum == DriverInit /\ NumStart

SpecNum == InitNum /\ [][NextNum]_vars

(***************************************************************************)
(* Properties of the driver.                                               *)
(***************************************************************************)
Depth(b) == Cardinality({i \in DOMAIN stack : stack[i].g = b})
ResumeFrames(b) == Cardinality({i \in DOMAIN stack : stack[i].g = b /\ stack[i].pc = "resume"})
ChildFrames(b) == Cardinality({i \in DOMAIN stack : stack[i].g = b /\ stack[i].pc = "wait_child"})
\* the operations body b is subscribed to that have not completed: Deferreds
\* it yielded, and the done_d of a generator it yielded
Outstanding(b) ==
    Cardinality({o \in OpIds : ops[o].state = "pending" /\ ops[o].sub = b})
    + Cardinality({c \in Bodies : dsub[c] = b /\ ~called[c]})
Ended(b) == ending[b] # NoExc

\* C1: the result of done_d is determined by how the body ended: a plain
\* value g gives g; Return(v) gives v; StopIteration gives None; any other
\* exception E gives a failure carrying E; and done_d fires for no other
\* reason.  This holds after any number of suspensions of the body.
C1_OutcomeFollowsEnding ==
    /\ root.kind = "plain" => called[1] /\ dres[1] = Value(root.value)
    /\ \A b \in Bodies :
        /\ Ended(b) => called[b]
        /\ Ended(b) /\ ending[b].kind = "Return" => dres[b] = Value(ending[b].value)
        /\ Ended(b) /\ ending[b].kind = "StopIteration" => dres[b] = Value("None")
        /\ Ended(b) /\ ending[b].kind \in ErrKinds => dres[b] = Failure(ending[b])
        /\ called[b] => Ended(b) \/ (b = 1 /\ root.kind = "plain")
        /\ ~called[b] => dres[b] = NoResult

\* C1 witness: a body that ended with an error after being suspended at
\* least twice, and whose done_d has fired.
C1_Witness ==
    \E b \in Bodies : called[b] /\ ending[b].kind \in ErrKinds /\ sends[b] >= 3

\* C2 (as claimed): a failed operation is thrown into the body, never sent;
\* and when the body does not handle it, done_d fires as a failure carrying
\* that same error.
C2_FailureReachesCaller ==
    \A b \in Bodies :
        /\ delivered[b].what = "failure" => delivered[b].how = "throw"
        /\ unhandled[b] => called[b] /\ dres[b] = Failure(ending[b])

\* C3 (as claimed): the number of simultaneously active invocations of
\* _iter_defer for one body stays within a constant, whatever the number of
\* suspensions.  A trampoline needs one, or two while addBoth on an already
\* fired Deferred calls back into a step that only records the result.
C3_BoundedNesting ==
    \A b \in Bodies : Depth(b) <= 2

\* C4: a body has at most one operation outstanding; every yield is answered
\* by exactly one resume (the resumes made, those about to be made and the
\* operations outstanding add up to the yields); and a body that awaited two
\* pending operations and nothing else has been resumed exactly twice after
\* its start when done_d fires, both operations having completed.
C4_OneOutstandingOneResume ==
    \A b \in Bodies :
        /\ Outstanding(b) <= 1
        /\ b <= nbodies =>
             sends[b] + ResumeFrames(b) + ChildFrames(b) + Outstanding(b) = nyield[b] + 1
        /\ Ended(b) => sends[b] = nyield[b] + 1
        /\ called[b] /\ npend[b] = 2 /\ nyield[b] = 2 =>
             /\ sends[b] = 3
             /\ \A o \in OpIds : ops[o].sub = b => ops[o].state = "fired"

\* C4 witness: a body that awaited two pending operations, one after the
\* other, and has completed.
C4_Witness ==
    \E b \in Bodies : called[b] /\ npend[b] = 2 /\ nyield[b] = 2

\* C5 (as claimed): for every v, a body that ended by Return(v) and a body
\* that ran to exhaustion leave different results in their done_d.
C5_ReturnDistinctFromExhaustion ==
    \A b1, b2 \in Bodies :
        /\ called[b1] /\ ending[b1].kind = "Return"
        /\ called[b2] /\ ending[b2] = StopIteration /\ ~unhandled[b2]
        => dres[b1] # dres[b2]

\* C5 (amended): for every v other than None, a body that ended by Return(v)
\* and a body that ran to exhaustion leave different results in their
\* done_d; Return(None) and exhaustion leave the same result, the value None.
C5_ReturnDistinctUnlessNone ==
    \A b1, b2 \in Bodies :
        /\ called[b1] /\ ending[b1].kind = "Return"
        /\ called[b2] /\ ending[b2] = StopIteration /\ ~unhandled[b2]
        => IF ending[b1].value = "None"
           THEN dres[b1] = dres[b2] /\ dres[b1] = Value("None")
           ELSE dres[b1] # dres[b2] /\ dres[b1].tag = "value" /\ dres[b2].tag = "value"

\* C5 witness: one body has ended by Return("a"), another by exhaustion.
C5_Witness ==
    \E b1, b2 \in Bodies :
        /\ called[b1] /\ ending[b1] = ReturnExc("a")
        /\ called[b2] /\ ending[b2] = StopIteration /\ ~unhandled[b2]


\* the Deferreds and child bodies that body b has subscribed to
Subscriptions(b) ==
    [op |-> {o \in OpIds : ops[o].sub = b}, child |-> {c \in Bodies : dsub[c] = b}]

\* C11: done_d of a body is fired at most once; once it has fired the body
\* is not resumed again and subscribes to nothing further; and, when active
\* invocations carry on and awaited operations complete, there comes a point
\* from which the done_d of every body that was started has fired, exactly
\* once.
C11_CompletedExactlyOnce ==
    /\ [](\A b \in Bodies : ncall[b] <= 1 /\ (called[b] <=> ncall[b] = 1))
    /\ [][\A b \in Bodies :
            called[b] =>
                /\ called'[b] /\ dres'[b] = dres[b]
                /\ sends'[b] = sends[b] /\ nyield'[b] = nyield[b]
                /\ Subscriptions(b)' = Subscriptions(b)]_vars
    /\ <>[](\A b \in Bodies : b <= nbodies => called[b] /\ ncall[b] = 1)

\* C11 witness: the root body and a generator it yielded have both completed,
\* after an operation fired by the reactor, and nothing is left to run.
C11_Witness ==
    /\ nbodies = 2 /\ called[1] /\ called[2] /\ ncall[1] = 1 /\ ncall[2] = 1
    /\ stack = <<>>
    /\ \E o \in OpIds : ops[o].state = "fired" /\ npend[ops[o].sub] > 0

(***************************************************************************)
(* Properties of the numeric strategies.                                   *)
(***************************************************************************)
Mid == (strat.start + strat.end) \div 2

\* C6: every template of a BoundedIntStrategy over [start, end] lies in
\* [start, end], and is start when start = end; every candidate simplify
\* yields for such a template lies in [start, end] too.
C6_RangeContainment ==
    IsBounded =>
        /\ phase \in {"produced", "simplified", "shrunk"} =>
             /\ strat.start <= template /\ template <= strat.end
             /\ strat.start = strat.end => template = strat.start
        /\ phase = "simplified" =>
             \A i \in DOMAIN simplified :
                 strat.start <= simplified[i] /\ simplified[i] <= strat.end

\* C6 witness: simplify has run on a produced template in the upper half of
\* a range of more than one point, so that it yielded the reflection and the
\* values above the template as well.
C6_Witness ==
    /\ IsBounded /\ phase = "simplified" /\ steps = 0
    /\ strat.start < strat.end /\ template > Mid /\ template < strat.end
    /\ Len(simplified) > template - strat.start

\* the number of shrink steps a template is away from the end of its chain
Rank(t) ==
    IF IsInt THEN (IF t < 0 THEN 2 ELSE IF t > 0 THEN 1 ELSE 0)
    ELSE t - strat.start

\* C7: for IntStrategy and BoundedIntStrategy simplify(t) is finite, and the
\* chain of first candidates is finite (every step lowers the rank of the
\* template), never comes back to the template it started from, and stops
\* only at a template whose simplify sequence is empty.
C7_ShrinkChainTerminates ==
    IsInt \/ IsBounded =>
        /\ steps > 0 => template # origin
        /\ phase # "new" /\ phase # "param" =>
             Rank(template) >= 0 /\ steps + Rank(template) <= Rank(origin)
        /\ phase = "simplified" =>
             Len(simplified) <= (IF IsInt THEN max_iters + 3
                                 ELSE strat.end - strat.start + 1)
        /\ phase = "simplified" /\ simplified = <<>> => Rank(template) = 0

\* C7 witness: a chain that started from a negative integer and has reached,
\* in two steps, a template whose simplify sequence is empty.
C7_Witness ==
    IsInt /\ origin < 0 /\ steps = 2 /\ phase = "simplified" /\ simplified = <<>>

\* C8: for 0 <= x <= 100, IntStrategy.simplify(x) is empty for 0, [0] for 1,
\* [0, 1] for 2, and for x >= 3 it is 0, then x // 2, then the integers from
\* x - 1 down to 1 without x // 2, in decreasing order; nothing is repeated
\* and x is not yielded.
C8_SmallIntSimplifyExact ==
    IsInt /\ phase = "simplified" /\ 0 <= template /\ template <= 100 =>
        LET x == template
            s == simplified
        IN IF x = 0 THEN s = <<>>
           ELSE IF x = 1 THEN s = <<0>>
           ELSE IF x = 2 THEN s = <<0, 1>>
           ELSE /\ Len(s) = x
                /\ s[1] = 0
                /\ s[2] = x \div 2
                /\ \A i \in 3..(Len(s) - 1) : s[i] > s[i + 1]
                /\ {s[i] : i \in 3..Len(s)} = (1..(x - 1)) \ {x \div 2}
                /\ \A i, j \in DOMAIN s : i # j => s[i] # s[j]
                /\ \A i \in DOMAIN s : s[i] # x

\* C8 witness: simplify has run on the template 100.
C8_Witness ==
    IsInt /\ phase = "simplified" /\ template = 100 /\ Len(simplified) = 100

\* simplified is: the n integers below the template in decreasing order;
\* then, only if the template is above the middle of the range, the
\* reflection start + (end - x) and the integers from x + 1 up to end
DownThenReflection(n) ==
    LET x == template
        s == simplified
    IN IF x > Mid
       THEN /\ Len(s) = n + 1 + (strat.end - x)
            /\ \A i \in 1..n : s[i] = x - i
            /\ s[n + 1] = strat.start + (strat.end - x)
            /\ \A j \in 1..(strat.end - x) : s[n + 1 + j] = x + j
       ELSE /\ Len(s) = n
            /\ \A i \in 1..n : s[i] = x - i

\* C9 (as claimed): for start < x <= end, simplify(x) first yields the
\* integers strictly between start and x, x - 1 down to start + 1; then,
\* only if x > (start + end) // 2, the reflection and the integers above x
\* up to end.
C9_StrictlyBetweenStart ==
    IsBounded /\ phase = "simplified" /\ strat.start < template =>
        DownThenReflection(template - strat.start - 1)

\* C9 (amended): for start < x <= end, simplify(x) first yields the integers
\* from x - 1 down to start, start included; then, only if
\* x > (start + end) // 2, the reflection start + (end - x) followed by the
\* integers from x + 1 up to end.
C9_DownToStartInclusive ==
    IsBounded /\ phase = "simplified" /\ strat.start < template =>
        /\ template <= strat.end
        /\ DownThenReflection(template - strat.start)
        /\ simplified[template - strat.start] = strat.start

\* C9 witness: simplify has run on a template above the middle of the range
\* and below its end.
C9_Witness ==
    /\ IsBounded /\ phase = "simplified"
    /\ strat.start < template /\ template > Mid /\ template < strat.end

\* C10 (as claimed): a template of FixedBoundedFloatStrategy(lower_bound,
\* upper_bound), lower_bound <= upper_bound, lies between the endpoints, for
\* every cut in [0, 1], either value of leftwards and every random() in
\* [0, 1), in exact arithmetic.
C10_WithinEndpoints ==
    IsFloat /\ phase = "produced" =>
        /\ strat.start * Denom * Denom <= template
        /\ template <= strat.end * Denom * Denom

====
